---- MODULE Spec2Model ----
(***************************************************************************)
(* Model of medpy.graphcut.parse: bk_mfmc_parse (the parser of the text    *)
(* printed by the max-flow/min-cut solver) and apply_mapping (the          *)
(* application of a region-id -> marker mapping to a label image).         *)
(*                                                                         *)
(* A text is a sequence of one-character strings.  A Python dict is a      *)
(* TLA+ function whose DOMAIN is the set of keys.                          *)
(***************************************************************************)
EXTENDS Integers, Sequences, FiniteSets, TLC

VARIABLES
    solver,       \* what the solver printed, line by line (descriptors)
    output,       \* the text handed to bk_mfmc_parse
    outcome,      \* how the last call of bk_mfmc_parse ended
    log,          \* the records the Logger singleton has received
    calls,        \* the calls of bk_mfmc_parse made so far: text and outcome
    label_image,  \* the caller's label image (rows of region ids)
    mapping,      \* the mapping handed to apply_mapping
    applied       \* how the call of apply_mapping ended

vars == <<solver, output, outcome, log, calls, label_image, mapping, applied>>

(***************************************************************************)
(* Bounds of the model.                                                    *)
(***************************************************************************)
MaxLines == 2     \* lines after line 0 in a solver output
MaxCalls == 3     \* successive calls of bk_mfmc_parse
MaxRows  == 2     \* rows of a label image

(***************************************************************************)
(* The two markers, shared with medpy.graphcut.generate.                   *)
(***************************************************************************)
BK_MFMC_SOURCE_MARKER == 0
BK_MFMC_SINK_MARKER == 1

(***************************************************************************)
(* Python's str and int primitives, as the parser uses them.               *)
(***************************************************************************)
EmptyDict == [k \in {} |-> 0]

None == [kind |-> "none"]

Whitespace == {" ", "\t"}

DigitChars == <<"0", "1", "2", "3", "4", "5", "6", "7", "8", "9">>

IsDigit(c) == \E i \in 1..10 : DigitChars[i] = c

DigitVal(c) == (CHOOSE i \in 1..10 : DigitChars[i] = c) - 1

\* s.find(c): the 0-based index of the first c in s, -1 when there is none.
Find(s, c) ==
    IF \E i \in 1..Len(s) : s[i] = c
    THEN (CHOOSE i \in 1..Len(s) : s[i] = c /\ \A j \in 1..(i - 1) : s[j] # c) - 1
    ELSE -1

\* m clipped to 0..len
Clip(m, len) == IF m < 0 THEN 0 ELSE IF m > len THEN len ELSE m

\* A slice bound as Python normalises it: a negative bound counts from the
\* end, and the result is clipped to 0..len.
SliceBound(n, len) == Clip(IF n < 0 THEN n + len ELSE n, len)

\* The elements from 0-based position lo up to, not including, hi.
Between(s, lo, hi) == IF lo >= hi THEN <<>> ELSE SubSeq(s, lo + 1, hi)

\* s[a:b] with 0-based, possibly negative, bounds.
Slice(s, a, b) == Between(s, SliceBound(a, Len(s)), SliceBound(b, Len(s)))

\* s[:b]
SliceTo(s, b) == Slice(s, 0, b)

\* s[a:]
SliceFrom(s, a) == Slice(s, a, Len(s))

\* The position of the first (from = 1) or last (from = Len(s)) character
\* of s that is no whitespace; s holds one.
FirstBlack(s) ==
    CHOOSE i \in 1..Len(s) :
        s[i] \notin Whitespace /\ \A j \in 1..(i - 1) : s[j] \in Whitespace

LastBlack(s) ==
    CHOOSE i \in 1..Len(s) :
        s[i] \notin Whitespace /\ \A j \in (i + 1)..Len(s) : s[j] \in Whitespace

\* s.strip()
Strip(s) ==
    IF \A i \in 1..Len(s) : s[i] \in Whitespace
    THEN <<>>
    ELSE SubSeq(s, FirstBlack(s), LastBlack(s))

\* s.split(sep): always at least one piece.
RECURSIVE Split(_, _)
Split(s, sep) ==
    IF Find(s, sep) = -1
    THEN <<s>>
    ELSE <<SubSeq(s, 1, Find(s, sep))>>
         \o Split(SubSeq(s, Find(s, sep) + 2, Len(s)), sep)

RECURSIVE DigitsValue(_)
DigitsValue(s) ==
    IF s = <<>> THEN 0
    ELSE 10 * DigitsValue(SubSeq(s, 1, Len(s) - 1)) + DigitVal(s[Len(s)])

\* t without its sign, if it has one.
Unsigned(t) == IF t # <<>> /\ t[1] \in {"+", "-"} THEN Tail(t) ELSE t

\* The integer written by the stripped text t, whose digits follow its sign.
IntOf(s, t, digits) ==
    IF digits # <<>> /\ \A i \in 1..Len(digits) : IsDigit(digits[i])
    THEN [ok  |-> TRUE,
          val |-> IF t[1] = "-" THEN 0 - DigitsValue(digits)
                  ELSE DigitsValue(digits)]
    ELSE [ok |-> FALSE, arg |-> s]

\* int(s): surrounding whitespace is ignored, then an optional sign and at
\* least one decimal digit; anything else raises ValueError, whose message
\* quotes s.
PyInt(s) == IntOf(s, Strip(s), Unsigned(Strip(s)))

(***************************************************************************)
(* bk_mfmc_parse                                                           *)
(***************************************************************************)
\* A dict whose first entry for a key is kept.
DictSetKeepFirst(d, key, value) ==
    [k \in DOMAIN d \cup {key} |-> IF k \in DOMAIN d THEN d[k] ELSE value]

\* nodes[key] = value
DictSet(d, key, value) ==
    [k \in DOMAIN d \cup {key} |-> IF k = key THEN value ELSE d[k]]

\* line 93: the flow is what follows the first '=' of line 0.
ParseFlow(line0) == PyInt(SliceFrom(line0, Find(line0, "=") + 1))

\* A test that skips the empty lines only.
IsSkippedEmptyOnly(line) == Len(line) = 0

\* line 97: comments and empty lines are skipped.
IsSkipped(line) == Len(line) = 0 \/ line[1] = "#"

\* line 98: the right-hand side is evaluated first, then the key; the first
\* int() that fails raises.
RecordOf(value, key) ==
    IF ~value.ok THEN value
    ELSE IF ~key.ok THEN key
    ELSE [ok |-> TRUE, key |-> key.val, value |-> value.val]

\* line 98
ParseRecord(line) ==
    RecordOf(PyInt(SliceFrom(line, Find(line, "=") + 1)),
             PyInt(SliceTo(line, Find(line, "="))))

RECURSIVE ParseNodes(_, _, _)

\* line 98: the entry is stored and the loop goes on, unless int() raised.
StoreRecord(lines, i, nodes, rec) ==
    IF ~rec.ok THEN rec
    ELSE ParseNodes(lines, i + 1, DictSet(nodes, rec.key, rec.value))

\* lines 96-98: one stripped line of the loop.
ParseLine(lines, i, nodes, line) ==
    IF IsSkipped(line) THEN ParseNodes(lines, i + 1, nodes)
    ELSE StoreRecord(lines, i, nodes, ParseRecord(line))

\* lines 95-98: the loop over lines[1:], from entry i on.  A line that does
\* not parse ends the loop with the ValueError of its int().
ParseNodes(lines, i, nodes) ==
    IF i > Len(lines) THEN [ok |-> TRUE, nodes |-> nodes]
    ELSE ParseLine(lines, i, nodes, Strip(lines[i]))

\* A dict that outlives the call: the one the previous call returned.
StaleNodes == IF outcome.kind = "return" THEN outcome.nodes ELSE EmptyDict

\* line 94: nodes = {}
NewNodes == EmptyDict

CountOf(nodes, marker) == Cardinality({k \in DOMAIN nodes : nodes[k] = marker})

\* lines 99-102: the debug record.
DebugRecord(flow, nodes) ==
    [level  |-> "debug", flow |-> flow, nodes |-> Cardinality(DOMAIN nodes),
     source |-> CountOf(nodes, BK_MFMC_SOURCE_MARKER),
     sink   |-> CountOf(nodes, BK_MFMC_SINK_MARKER)]

InfoRecord == [level |-> "info"]

ArgumentError(arg) == [kind |-> "ArgumentError", arg |-> arg]

\* line 103, or the handler of lines 104-105 for a line after line 0.
ReturnOf(flow, parsed) ==
    IF ~parsed.ok THEN ArgumentError(parsed.arg)
    ELSE [kind |-> "return", flow |-> flow, nodes |-> parsed.nodes]

\* lines 93-105, the flow read.
ParseAfterFlow(lines, flow) ==
    IF ~flow.ok THEN ArgumentError(flow.arg)
    ELSE ReturnOf(flow.val, ParseNodes(lines, 2, NewNodes))

\* lines 93-105, the text split.
ParseLines(lines) == ParseAfterFlow(lines, ParseFlow(lines[1]))

\* lines 91-105 without the logger calls: the try block and its handler.
ParseBody(text) == ParseLines(Split(text, "\n"))

\* lines 99-105: the debug record of a parse that succeeded.  Only a
\* ValueError of logger.debug is turned into an ArgumentError.
Logged(body, debug) ==
    IF body.kind # "return" THEN [out |-> body, log |-> <<InfoRecord>>]
    ELSE IF debug = "ok"
    THEN [out |-> body,
          log |-> <<InfoRecord, DebugRecord(body.flow, body.nodes)>>]
    ELSE IF debug = "ValueError"
    THEN [out |-> ArgumentError(<<>>), log |-> <<InfoRecord>>]
    ELSE [out |-> [kind |-> "LoggerError"], log |-> <<InfoRecord>>]

\* lines 87-105.  info and debug say how the two logger calls end: "ok", or
\* the exception the logger raises ("ValueError", or any "other").
\* logger.info is outside the try block, logger.debug inside it.
bk_mfmc_parse(text, info, debug) ==
    IF info # "ok" THEN [out |-> [kind |-> "LoggerError"], log |-> <<>>]
    ELSE Logged(ParseBody(text), debug)

(***************************************************************************)
(* The solver's output format: line 0 is <prefix>=<flow>, every later line *)
(* a record <id>=<code>, a blank line or a # comment.  A "raw" line is     *)
(* printed as it stands.                                                   *)
(***************************************************************************)
RECURSIVE DecNat(_)
DecNat(n) ==
    IF n < 10 THEN <<DigitChars[n + 1]>>
    ELSE DecNat(n \div 10) \o <<DigitChars[(n % 10) + 1]>>

\* The decimal text of an integer.
Dec(n) == IF n < 0 THEN <<"-">> \o DecNat(0 - n) ELSE DecNat(n)

Spaces(n) == [i \in 1..n |-> " "]

Line(type, id, code, pad, text) ==
    [type |-> type, id |-> id, code |-> code, pad |-> pad, text |-> text]

FlowLine(prefix, flow) == Line("flow", 0, flow, 0, prefix)
RecordLine(id, code, pad) == Line("record", id, code, pad, <<>>)
BlankLine(pad) == Line("blank", 0, 0, pad, <<>>)
CommentLine(pad, body) == Line("comment", 0, 0, pad, body)
RawLine(text) == Line("raw", 0, 0, 0, text)

RenderLine(l) ==
    CASE l.type = "flow"    -> l.text \o <<"=">> \o Dec(l.code)
      [] l.type = "record"  -> Spaces(l.pad) \o Dec(l.id) \o <<"=">>
                               \o Dec(l.code) \o Spaces(l.pad)
      [] l.type = "blank"   -> Spaces(l.pad)
      [] l.type = "comment" -> Spaces(l.pad) \o <<"#">> \o l.text
      [] OTHER              -> l.text

\* The lines joined by newlines.
RECURSIVE Render(_)
Render(ls) ==
    IF Len(ls) = 1 THEN RenderLine(ls[1])
    ELSE RenderLine(ls[1]) \o <<"\n">> \o Render(Tail(ls))

FirstLines ==
    {FlowLine(p, f) : p \in {<<"f", "l", "o", "w">>, <<>>}, f \in {0, 12}}
    \cup {FlowLine(<<"f", "l", "o", "w">>, -3)}
    \cup {RawLine(t) : t \in {<<>>, <<"1", "2">>, <<"f", "l", "o", "w">>,
                              <<"f", "l", "o", "w", "=", "x">>}}

LaterLines ==
    {RecordLine(i, c, p) : i \in {1, 2, 10}, c \in {0, 1}, p \in {0, 1}}
    \cup {RecordLine(-1, 0, 0), RecordLine(1, 7, 0)}
    \cup {BlankLine(p) : p \in {0, 1}}
    \cup {CommentLine(0, <<>>), CommentLine(1, <<" ", "c">>),
          CommentLine(0, <<"1", "=", "0">>)}
    \cup {RawLine(t) : t \in {<<"a", "b", "c">>, <<"1", "2">>, <<"5">>,
                              <<"1", "=">>, <<"=", "1">>, <<"1", "=", "a">>,
                              <<"1", "=", "=", "0">>}}

\* The sequences of at most n elements of S.
SeqsUpTo(S, n) == UNION {[1..k -> S] : k \in 0..n}

SolverOutputs ==
    {<<first>> \o later : first \in FirstLines,
                          later \in SeqsUpTo(LaterLines, MaxLines)}

NoImage == <<>>

(***************************************************************************)
(* One call of bk_mfmc_parse on a solver output, the logger working.       *)
(***************************************************************************)
Init ==
    /\ solver \in SolverOutputs
    /\ output = Render(solver)
    /\ outcome = None
    /\ log = <<>>
    /\ calls = <<>>
    /\ label_image = NoImage
    /\ mapping = EmptyDict
    /\ applied = None

Parse ==
    /\ outcome = None
    /\ LET r == bk_mfmc_parse(output, "ok", "ok")
       IN  /\ outcome' = r.out
           /\ log' = log \o r.log
    /\ UNCHANGED <<solver, output, calls, label_image, mapping, applied>>

Next == Parse

Spec == Init /\ [][Next]_vars

(***************************************************************************)
(* Properties of one call of bk_mfmc_parse.                                *)
(***************************************************************************)
Parsed == outcome # None

LaterIndexes == 2..Len(solver)

RecordIndexes == {i \in LaterIndexes : solver[i].type = "record"}

\* The solver printed a flow line, then records, blank lines and comments.
ValidOutput ==
    /\ solver[1].type = "flow"
    /\ \A i \in LaterIndexes : solver[i].type \in {"record", "blank", "comment"}

RecordIds == {solver[i].id : i \in RecordIndexes}

LastRecordOf(id) ==
    CHOOSE i \in RecordIndexes :
        solver[i].id = id
        /\ \A j \in RecordIndexes : solver[j].id = id => j <= i

\* The mapping the record lines describe.
ExpectedNodes == [id \in RecordIds |-> solver[LastRecordOf(id)].code]

\* C1: for a valid output, bk_mfmc_parse returns the flow of line 0 and a
\* mapping with one entry id -> code per record line, none for a blank or
\* comment line, whatever whitespace surrounds the record.
C1_ParseReturnsFlowAndRecords ==
    (Parsed /\ ValidOutput) =>
        /\ outcome.kind = "return"
        /\ outcome.flow = solver[1].code
        /\ DOMAIN outcome.nodes = RecordIds
        /\ outcome.nodes = ExpectedNodes
        /\ \A i \in RecordIndexes :
               (\A j \in RecordIndexes : solver[j].id = solver[i].id => j = i)
               => outcome.nodes[solver[i].id] = solver[i].code

\* A valid output with a padded record and a commented-out record was parsed.
C1_Witness ==
    /\ Parsed /\ ValidOutput
    /\ outcome.kind = "return"
    /\ \E i \in RecordIndexes : solver[i].pad = 1 /\ solver[i].id = 10
    /\ \E i \in LaterIndexes : solver[i].type = "comment" /\ solver[i].text # <<>>
    /\ outcome.flow = 12

\* A text that is an integer literal: optional sign, then digits, with
\* whitespace allowed around it.
IsInteger(s) ==
    LET t == Strip(s)
    IN  /\ t # <<>>
        /\ \E i \in 1..Len(t) : IsDigit(t[i])
        /\ \A i \in 1..Len(t) :
               IsDigit(t[i]) \/ (i = 1 /\ t[1] \in {"+", "-"})

HasFieldsAt(line, k) ==
    line[k] = "=" /\ \A j \in 1..(k - 1) : line[j] # "="

\* <int>=<int>
IsRecordText(line) ==
    \E k \in 1..Len(line) :
        /\ HasFieldsAt(line, k)
        /\ IsInteger(SubSeq(line, 1, k - 1))
        /\ IsInteger(SubSeq(line, k + 1, Len(line)))

\* <prefix>=<int>
IsFlowText(line) ==
    \E k \in 1..Len(line) :
        HasFieldsAt(line, k) /\ IsInteger(SubSeq(line, k + 1, Len(line)))

IsIgnoredText(line) == Strip(line) = <<>> \/ Strip(line)[1] = "#"

MalformedOutput ==
    \/ ~IsFlowText(RenderLine(solver[1]))
    \/ \E i \in LaterIndexes :
           /\ ~IsIgnoredText(RenderLine(solver[i]))
           /\ ~IsRecordText(Strip(RenderLine(solver[i])))

\* C3: a malformed line 0, or a later line that is neither blank, comment
\* nor <int>=<int> (no '=', a non-numeric field), makes bk_mfmc_parse fail
\* with ArgumentError.
C3_MalformedLineAborts ==
    (Parsed /\ MalformedOutput) => outcome.kind = "ArgumentError"

\* C6: a returned flow is non-negative, every returned node id is
\* non-negative and every returned value is one of the two markers.
C6_ResultInDataModel ==
    outcome.kind = "return" =>
        /\ outcome.flow >= 0
        /\ \A k \in DOMAIN outcome.nodes :
               /\ k >= 0
               /\ outcome.nodes[k] \in {BK_MFMC_SOURCE_MARKER, BK_MFMC_SINK_MARKER}

\* C9: when a node id is on several record lines the output is accepted and
\* the single entry of that id holds the code of the last of those lines.
C9_LastWriteWins ==
    (Parsed /\ ValidOutput) =>
        \A i, j \in RecordIndexes :
            (i < j /\ solver[i].id = solver[j].id
                   /\ \A k \in RecordIndexes : solver[k].id = solver[j].id => k <= j)
            => /\ outcome.kind = "return"
               /\ outcome.nodes[solver[j].id] = solver[j].code
               /\ Cardinality(DOMAIN outcome.nodes) = Cardinality(RecordIds)

\* An id was printed twice with two different codes, and parsed.
C9_Witness ==
    /\ Parsed /\ ValidOutput
    /\ \E i, j \in RecordIndexes :
           /\ i < j /\ solver[i].id = solver[j].id
           /\ solver[i].code # solver[j].code
           /\ outcome.kind = "return"
           /\ outcome.nodes[solver[j].id] = solver[j].code

(***************************************************************************)
(* One call of bk_mfmc_parse with a logger whose calls may raise.          *)
(***************************************************************************)
LoggerEnds == {"ok", "ValueError", "other"}

ParseLogging ==
    /\ outcome = None
    /\ \E info \in LoggerEnds, debug \in LoggerEnds :
           LET r == bk_mfmc_parse(output, info, debug)
           IN  /\ outcome' = r.out
               /\ log' = log \o r.log
    /\ UNCHANGED <<solver, output, calls, label_image, mapping, applied>>

NextLogging == ParseLogging

SpecLogging == Init /\ [][NextLogging]_vars

\* C10: for a valid output, a failing logger.info or logger.debug leaves
\* the result what it is when logging succeeds.
C10_LoggerFailureKeepsResult ==
    (Parsed /\ ValidOutput) => outcome = bk_mfmc_parse(output, "ok", "ok").out

(***************************************************************************)
(* Successive calls of bk_mfmc_parse, on texts in any order.               *)
(***************************************************************************)
Flow == <<"f", "l", "o", "w">>

RepeatOutputs ==
    { <<FlowLine(Flow, 0)>>,
      <<FlowLine(Flow, 0), RecordLine(1, 0, 0)>>,
      <<FlowLine(Flow, 12), RecordLine(2, 1, 1), CommentLine(0, <<>>)>>,
      <<FlowLine(Flow, 0), RawLine(<<"a", "b", "c">>)>>,
      <<RawLine(Flow)>> }

InitRepeat ==
    /\ solver = <<>>
    /\ output = <<>>
    /\ outcome = None
    /\ log = <<>>
    /\ calls = <<>>
    /\ label_image = NoImage
    /\ mapping = EmptyDict
    /\ applied = None

Call ==
    /\ Len(calls) < MaxCalls
    /\ \E s \in RepeatOutputs :
           LET text == Render(s)
               r    == bk_mfmc_parse(text, "ok", "ok")
           IN  /\ solver' = s
               /\ output' = text
               /\ outcome' = r.out
               /\ log' = log \o r.log
               /\ calls' = Append(calls, [text |-> text, out |-> r.out])
    /\ UNCHANGED <<label_image, mapping, applied>>

NextRepeat == Call

SpecRepeat == InitRepeat /\ [][NextRepeat]_vars

Shape(img) == <<Len(img), Len(img[1])>>

\* An array that is a view of the caller's buffer (scipy.asarray).
ScipyAsArray(img) == [data |-> img, owned |-> FALSE]

\* line 55: scipy.array copies its argument into a buffer of its own.
ScipyArray(img) == [data |-> img, owned |-> TRUE]

\* The elements column by column.
RavelColumnMajor(img) ==
    [n \in 1..(Len(img) * Len(img[1])) |->
        img[((n - 1) % Len(img)) + 1][((n - 1) \div Len(img)) + 1]]

\* line 56: ravel() lists the elements in row-major order.
Ravel(img) ==
    [n \in 1..(Len(img) * Len(img[1])) |->
        img[((n - 1) \div Len(img[1])) + 1][((n - 1) % Len(img[1])) + 1]]

\* line 61: reshape() lays a flat sequence out in rows again.
Reshape(flat, shape) ==
    [r \in 1..shape[1] |-> [c \in 1..shape[2] |-> flat[(r - 1) * shape[2] + c]]]

\* line 61: astype(bool_) makes every non-zero element True.
AsBool(x) == x # 0

\* lines 57-60: the loop, from position i on; rav is overwritten in place.
RECURSIVE MapLoop(_, _, _)
MapLoop(rav, i, map) ==
    IF i > Len(rav) THEN [ok |-> TRUE, rav |-> rav]
    ELSE IF rav[i] \notin DOMAIN map THEN [ok |-> FALSE, id |-> rav[i], rav |-> rav]
    ELSE MapLoop([rav EXCEPT ![i] = map[rav[i]]], i + 1, map)

\* lines 55-61.  image is what the caller's buffer holds after the call.
apply_mapping(img, map) ==
    LET arr  == ScipyArray(img)
        loop == MapLoop(Ravel(arr.data), 1, map)
        left == IF arr.owned THEN img ELSE Reshape(loop.rav, Shape(img))
    IN  IF loop.ok
        THEN [out   |-> [kind |-> "return",
                         mask |-> Reshape([n \in DOMAIN loop.rav |->
                                               AsBool(loop.rav[n])],
                                          Shape(img))],
              image |-> left]
        ELSE [out   |-> [kind |-> "ArgumentError", id |-> loop.id],
              image |-> left]

RegionIds == {1, 2, 3}

ColumnCounts == {1, 2}

\* What a mapping may hold: the two markers and a value that is neither.
MapValues == {BK_MFMC_SOURCE_MARKER, BK_MFMC_SINK_MARKER, 2}

Images ==
    UNION {[1..r -> [1..c -> RegionIds]] : r \in 1..MaxRows, c \in ColumnCounts}

Mappings == UNION {[D -> MapValues] : D \in SUBSET RegionIds}

InitApply ==
    /\ solver = <<>>
    /\ output = <<>>
    /\ outcome = None
    /\ log = <<>>
    /\ calls = <<>>
    /\ label_image \in Images
    /\ mapping \in Mappings
    /\ applied = None

Apply ==
    /\ applied = None
    /\ LET r == apply_mapping(label_image, mapping)
       IN  /\ applied' = r.out
           /\ label_image' = r.image
    /\ UNCHANGED <<solver, output, outcome, log, calls, mapping>>

NextApply == Apply

SpecApply == InitApply /\ [][NextApply]_vars

Cells == {<<r, c>> : r \in 1..Len(label_image), c \in 1..Len(label_image[1])}

IdAt(cell) == label_image[cell[1]][cell[2]]

Unmapped(cell) == IdAt(cell) \notin DOMAIN mapping

\* cell a comes before cell b in the row-major traversal
Before(a, b) == a[1] < b[1] \/ (a[1] = b[1] /\ a[2] < b[2])

Covered == \A cell \in Cells : ~Unmapped(cell)

SameShape(mask) ==
    /\ Len(mask) = Len(label_image)
    /\ \A r \in 1..Len(mask) : Len(mask[r]) = Len(label_image[r])

\* C2: when the mapping covers the image, the mask has the image's shape
\* and is true exactly where the mapped value equals the source marker.
C2_MaskTrueIffSource ==
    (applied # None /\ Covered) =>
        /\ applied.kind = "return"
        /\ SameShape(applied.mask)
        /\ \A cell \in Cells :
               applied.mask[cell[1]][cell[2]]
                   = (mapping[IdAt(cell)] = BK_MFMC_SOURCE_MARKER)

\* C4: when an id of the image is not in the mapping, apply_mapping fails
\* with ArgumentError, returns no mask, and reports the first unmapped id
\* of the row-major traversal.
C4_FirstUnmappedIdReported ==
    (applied # None /\ ~Covered) =>
        /\ applied.kind = "ArgumentError"
        /\ \E cell \in Cells :
               /\ Unmapped(cell)
               /\ \A other \in Cells : Before(other, cell) => ~Unmapped(other)
               /\ applied.id = IdAt(cell)

\* Two different ids are missing, the first cell is mapped, and the call
\* has failed.
C4_Witness ==
    /\ applied.kind = "ArgumentError"
    /\ ~Unmapped(<<1, 1>>)
    /\ \E a, b \in Cells : Unmapped(a) /\ Unmapped(b) /\ IdAt(a) # IdAt(b)
                           /\ a[1] # b[1] /\ a[2] # b[2]

\* C5: a covering mapping that sends every id to the source marker gives
\* an all-true mask of the image's shape, one that sends every id to the
\* sink marker an all-false mask.
C5_AllSourceAllTrue ==
    (applied # None /\ Covered) =>
        /\ (\A id \in DOMAIN mapping : mapping[id] = BK_MFMC_SOURCE_MARKER)
               => /\ applied.kind = "return"
                  /\ SameShape(applied.mask)
                  /\ \A cell \in Cells : applied.mask[cell[1]][cell[2]] = TRUE
        /\ (\A id \in DOMAIN mapping : mapping[id] = BK_MFMC_SINK_MARKER)
               => /\ applied.kind = "return"
                  /\ SameShape(applied.mask)
                  /\ \A cell \in Cells : applied.mask[cell[1]][cell[2]] = FALSE

\* C7: a call of apply_mapping, returning or failing, leaves the caller's
\* label image and the mapping as they were.
C7_InputsUnchanged ==
    [][Apply => (label_image' = label_image /\ mapping' = mapping)]_vars

\* The call failed part-way: the first element had been looked up, and its
\* mapped value differs from its region id.
C7_Witness ==
    /\ applied.kind = "ArgumentError"
    /\ ~Unmapped(<<1, 1>>)
    /\ mapping[IdAt(<<1, 1>>)] # IdAt(<<1, 1>>)

====
